---- MODULE Spec2Model ----
(***************************************************************************)
(* OnePlacePDF editor (src/app.py): the Flask server's per-document        *)
(* version ledger (upload / annotate / revert / download) and the          *)
(* browser client's pending-action list with its snapshot history.         *)
(***************************************************************************)
EXTENDS Integers, Sequences, FiniteSets, TLC

\* Python None / a missing JSON key / JavaScript null.
None == "none"

(***************************************************************************)
(* Bounds of the model.                                                    *)
(***************************************************************************)
\* successful annotate requests explored per document (each draws a uuid4 key)
MaxSaves == 2
\* longest action list of one annotate request
MaxBatch == 2
\* page count of the largest uploaded PDF
MaxPages == 2
\* worker threads of the server handling requests at the same time
MaxThreads == 2

\* uuid4 document ids handed out by upload
DocIds == {"d1"}
\* a document id no upload ever returned
UnknownDoc == "d0"

Last(s) == s[Len(s)]
Front(s) == SubSeq(s, 1, Len(s) - 1)

(***************************************************************************)
(* Server state.                                                           *)
(*   DOCS     doc_id -> [name, original, working, versions]                *)
(*   storage  key -> bytes (the files under WORK_DIR / the S3 bucket)      *)
(*   req      the request last handled, NoReq while the server waits       *)
(*   resp     the JSON (or file) response to req                           *)
(*   pre      history variable: DOCS and storage as req found them         *)
(*   last     history variable: when the request handled just before req   *)
(*            was an annotate that appended a version, that request's      *)
(*            document and DOCS and storage as it found them               *)
(*   frames   per worker thread, the annotate call it is inside of: the    *)
(*            document id and the in-memory fitz document, NoFrame when    *)
(*            the thread is in no annotate call                            *)
(***************************************************************************)
VARIABLES DOCS, storage, req, resp, pre, last, frames

svars == <<DOCS, storage, req, resp, pre, last, frames>>

Threads == 1..MaxThreads
NoFrame == [op |-> "none"]
NoFrames == [t \in Threads |-> NoFrame]

NoReq == [op |-> "none"]
NoResp == [status |-> 0]
NoPre == [k \in {} |-> None]
NoLast == [op |-> "none"]

\* j.ok as the client reads it: true only when the JSON has a true "ok".
RespOk(r) == "ok" \in DOMAIN r /\ r.ok

\* What every handler does on entry: it takes the next request off the wire
\* (requests are handled one at a time, each to its response).
Receive(r) ==
  /\ req = NoReq
  /\ req' = r
  /\ pre' = [DOCS |-> DOCS, storage |-> storage]
  /\ UNCHANGED <<last, frames>>

\* The response has been returned; the server waits for the next request.
Idle ==
  /\ req # NoReq
  /\ req' = NoReq /\ resp' = NoResp /\ pre' = NoPre
  /\ last' = IF req.op = "annotate" /\ "version" \in DOMAIN resp
             THEN [op |-> req.op, doc_id |-> req.doc_id, pre |-> pre]
             ELSE NoLast
  /\ UNCHANGED <<DOCS, storage, frames>>

\* ---- bytes of a PDF file -------------------------------------------------
\* A file that fitz can open: np pages, the annotations written so far, and
\* how many times fitz re-serialised it (pdf.save writes a new file body).
PdfBytes(np) == [kind |-> "pdf", np |-> np, annots |-> <<>>, gen |-> 0]
\* A file that is not a PDF (upload only looks at the file name).
Garbage == [kind |-> "garbage", np |-> 0, annots |-> <<>>, gen |-> 0]

\* ---- Storage -------------------------------------------------------------
Storage_save(st, file_bytes, key) ==
  [k \in DOMAIN st \cup {key} |-> IF k = key THEN file_bytes ELSE st[k]]

Storage_get(st, key) == st[key]

\* ---- helpers -------------------------------------------------------------
ALLOWED_EXT == {".pdf"}

Lower(ext) == IF ext = ".PDF" THEN ".pdf" ELSE ext

_allowed(filename) == Lower(filename.suffix) \in ALLOWED_EXT


(***************************************************************************)
(* annotate: one action of the batch applied to the in-memory document.    *)
(* An action of a request is modelled by the fields the handler reads:     *)
(*   type      a.get("type"): a kind name or an unknown name; the key may  *)
(*             be absent                                                   *)
(*   page      a["page"]: an integer; the key may be absent                *)
(*   geometry  "ok" | "missing" (no rect / points key) | "onepoint" (ink   *)
(*             whose strokes all have fewer than 2 points)                 *)
(*   payload   image_data_url of a signature: "png" | "missing" |          *)
(*             "nocomma" | "badpadding" | "notimage"                       *)
(*   writer    "ok" | "raises": whether the PyMuPDF call that writes this  *)
(*             action (after any fallback) raises                          *)
(***************************************************************************)
RectKinds == {"highlight", "strikeout", "shape_rect", "shape_circle",
              "textbox", "signature", "tick", "cross"}
LineKinds == {"line", "arrow"}

Ok(pdf) == [ok |-> TRUE, pdf |-> pdf, error |-> None]
Raise(pdf, e) == [ok |-> FALSE, pdf |-> pdf, error |-> e]

\* Document.__contains__ of PyMuPDF: an integer is "in" the document when it is
\* below the page count; negative integers pass.
PageInDocument(pdf, i) == i < pdf.np

\* Document.load_page: while the page number is negative the page count is
\* added to it, so -1 is the last page.
LoadPage(pdf, i) == i % pdf.np

\* page.add_*_annot(...) / page.insert_image(...): append to the page's content.
AddAnnot(pdf, t, p) == [pdf EXCEPT !.annots = Append(@, [type |-> t, page |-> p])]

\* _decode_data_url: b"" when there is no payload or no comma, else b64decode,
\* which raises on incorrect padding.
_decode_data_url(payload) ==
  CASE payload \in {"missing", "nocomma"} -> [ok |-> TRUE, bytes |-> "empty"]
    [] payload = "badpadding" -> [ok |-> FALSE, bytes |-> "empty"]
    [] payload = "notimage" -> [ok |-> TRUE, bytes |-> "notimage"]
    [] OTHER -> [ok |-> TRUE, bytes |-> "png"]

\* The writer call of one action: raises, or adds the annotation.
Write(pdf, a, p) ==
  IF a.writer = "raises" THEN Raise(pdf, "writer error")
  ELSE Ok(AddAnnot(pdf, a.type, p))

\* a.get(k): the value of key k, or None when the action has no such key.
Get(a, k) == IF k \in DOMAIN a THEN a[k] ELSE None

\* The body of the for loop (lines 816-922) for one action.
ApplyAction(pdf, a) ==
  LET t == Get(a, "type") IN
  IF "page" \notin DOMAIN a THEN Raise(pdf, "KeyError: page")
  ELSE IF ~PageInDocument(pdf, a.page) THEN Raise(pdf, "page not in document")
  ELSE
    LET p == LoadPage(pdf, a.page) IN
    IF t \in RectKinds /\ a.geometry = "missing" THEN Raise(pdf, "KeyError: rect")
    ELSE IF t \in RectKinds \ {"signature"} THEN Write(pdf, a, p)
    ELSE IF t \in LineKinds THEN
      IF a.geometry = "missing" THEN Raise(pdf, "KeyError: points") ELSE Write(pdf, a, p)
    ELSE IF t = "ink" THEN
      IF a.geometry = "missing" THEN Raise(pdf, "KeyError: points")
      ELSE IF a.geometry = "onepoint" THEN Ok(pdf)
      ELSE Write(pdf, a, p)
    ELSE IF t = "signature" THEN
      LET img == _decode_data_url(a.payload) IN
      IF ~img.ok THEN Raise(pdf, "Incorrect padding")
      ELSE IF img.bytes = "empty" THEN Ok(pdf)
      ELSE IF img.bytes = "notimage" THEN Raise(pdf, "not an image")
      ELSE Write(pdf, a, p)
    ELSE Ok(pdf)

\* The for loop over the batch: stops at the first action that raises.
RECURSIVE ApplyActions(_, _, _)
ApplyActions(pdf, actions, i) ==
  IF i > Len(actions) THEN Ok(pdf)
  ELSE LET r == ApplyAction(pdf, actions[i]) IN
       IF r.ok THEN ApplyActions(r.pdf, actions, i + 1) ELSE r

\* fitz.open(stream=..., filetype="pdf") raises on bytes that are no PDF.
FitzOpen(bytes) ==
  IF bytes.kind = "pdf" THEN Ok(bytes) ELSE Raise(bytes, "cannot open broken document")

\* pdf.save(out): the serialised bytes of the in-memory document.
PdfSave(pdf) == [pdf EXCEPT !.gen = @ + 1]


(***************************************************************************)
(* Routes.  Each action is one request handled to its response.            *)
(***************************************************************************)
\* Mutant: the new version is written over the working copy.
NewKeyIsWorking(doc_id) == [doc |-> doc_id, file |-> "working", uuid |-> 0]

\* The n-th uuid4 drawn for a version key of doc_id: a key no file is stored
\* under yet.  uuid4 values are opaque, so the least unused one stands for it.
\* f"{doc_id}/{file}.pdf"; uuid is the number of the uuid4 in a version key.
Key(doc_id, file, uuid) == [doc |-> doc_id, file |-> file, uuid |-> uuid]

FreshKeys(doc_id) == {n \in 1..MaxSaves : Key(doc_id, "uuid", n) \notin DOMAIN storage}
NewKey(doc_id) ==
  Key(doc_id, "uuid", CHOOSE n \in FreshKeys(doc_id) : \A m \in FreshKeys(doc_id) : n <= m)

\* request.files.get("file") when the form has no file part.
NoFile == [k \in {} |-> None]

\* Mutant: the ledger of a new document starts empty.
InitialVersionsEmpty(working) == <<>>

\* Line 769: the ledger of a new document holds its working copy.
InitialVersions(working) == <<working>>

\* POST /upload
upload(f) ==
  /\ Receive([op |-> "upload", file |-> f])
  /\ IF f = NoFile \/ ~_allowed(f.filename)
     THEN /\ resp' = [status |-> 400, error |-> "Please upload a PDF file"]
          /\ UNCHANGED <<DOCS, storage>>
     ELSE \E doc_id \in DocIds \ DOMAIN DOCS :
          LET original == Key(doc_id, "original", 0)
              working == Key(doc_id, "working", 0)
              st1 == Storage_save(storage, f.bytes, original)
              st2 == Storage_save(st1, Storage_get(st1, original), working)
          IN /\ storage' = st2
             /\ DOCS' = [d \in DOMAIN DOCS \cup {doc_id} |->
                           IF d = doc_id
                           THEN [name |-> f.filename, original |-> original,
                                 working |-> working, versions |-> InitialVersions(working)]
                           ELSE DOCS[d]]
             /\ resp' = [status |-> 200, doc_id |-> doc_id]

\* The outcome of annotate's try block once the document is known and the
\* batch is not empty: [ok, pdf, error].
AnnotateRun(doc_id, actions) ==
  LET opened == FitzOpen(Storage_get(storage, DOCS[doc_id].working)) IN
  IF ~opened.ok THEN opened ELSE ApplyActions(opened.pdf, actions, 1)

\* Mutant: the new key goes to the front of the ledger.
PrependVersion(vers, new_key) == <<new_key>> \o vers

\* Line 930: the new key goes to the end of the ledger.
AppendVersion(vers, new_key) == Append(vers, new_key)

\* Mutant: the new key is made current before the bytes are stored, so a
\* failed write leaves it current.
AnnotateCommitEarly(doc_id, pdf, io) ==
  LET new_key == [doc |-> doc_id, file |-> "uuid",
                  uuid |-> CHOOSE n \in 1..MaxSaves :
                             [doc |-> doc_id, file |-> "uuid", uuid |-> n] \notin DOMAIN storage]
  IN
  IF io = "fails"
  THEN /\ storage' = [k \in DOMAIN storage \cup {new_key} |->
                        IF k = new_key THEN [kind |-> "garbage", np |-> 0, annots |-> <<>>, gen |-> 0]
                        ELSE storage[k]]
       /\ DOCS' = [DOCS EXCEPT ![doc_id].working = new_key]
       /\ resp' = [status |-> 400, ok |-> FALSE, error |-> "OSError"]
  ELSE /\ storage' = [k \in DOMAIN storage \cup {new_key} |->
                        IF k = new_key THEN [pdf EXCEPT !.gen = @ + 1] ELSE storage[k]]
       /\ DOCS' = [DOCS EXCEPT ![doc_id].working = new_key,
                               ![doc_id].versions = Append(@, new_key)]
       /\ resp' = [status |-> 200, ok |-> TRUE, version |-> Len(DOCS'[doc_id].versions)]

\* Lines 924-931: serialise, store under a new key, make it current, append.
\* io = "fails": Storage.save raises (disk full, S3 error) and leaves a
\* partial file under the new key; the except clause answers.
AnnotateCommit(doc_id, pdf, io) ==
  LET new_key == NewKey(doc_id) IN
  IF io = "fails"
  THEN /\ storage' = Storage_save(storage, Garbage, new_key)
       /\ UNCHANGED DOCS
       /\ resp' = [status |-> 400, ok |-> FALSE, error |-> "OSError"]
  ELSE /\ storage' = Storage_save(storage, PdfSave(pdf), new_key)
       /\ DOCS' = [DOCS EXCEPT ![doc_id].working = new_key,
                               ![doc_id].versions = AppendVersion(@, new_key)]
       /\ resp' = [status |-> 200, ok |-> TRUE, version |-> Len(DOCS'[doc_id].versions)]

\* Mutant: only a missing "actions" key counts as nothing to do.
NothingToDoIfAbsent(body) == "actions" \notin DOMAIN body

\* Line 811: `if not actions` (no key, or an empty list).
NothingToDo(body) == "actions" \notin DOMAIN body \/ body.actions = <<>>

\* POST /annotate/<doc_id>
annotate(doc_id, body, io) ==
  /\ Receive([op |-> "annotate", doc_id |-> doc_id, body |-> body])
  /\ IF doc_id \notin DOMAIN DOCS
     THEN /\ resp' = [status |-> 404, ok |-> FALSE, error |-> "doc not found"]
          /\ UNCHANGED <<DOCS, storage>>
     ELSE IF "malformed" \in DOMAIN body
     THEN /\ resp' = [status |-> 400, ok |-> FALSE, error |-> "Bad Request"]
          /\ UNCHANGED <<DOCS, storage>>
     ELSE IF NothingToDo(body)
     THEN /\ resp' = [status |-> 200, ok |-> TRUE, message |-> "nothing to do"]
          /\ UNCHANGED <<DOCS, storage>>
     ELSE LET r == AnnotateRun(doc_id, body.actions) IN
          IF r.ok
          THEN /\ FreshKeys(doc_id) # {}
               /\ AnnotateCommit(doc_id, r.pdf, io)
          ELSE /\ resp' = [status |-> 400, ok |-> FALSE, error |-> r.error]
               /\ UNCHANGED <<DOCS, storage>>

\* Mutant: the guard is off by one.
NoPreviousVersionOffByOne(vers) == Len(vers) < 1

\* Line 941: a ledger of fewer than 2 versions cannot be rolled back.
NoPreviousVersion(vers) == Len(vers) < 2

\* Mutant: the first entry becomes current.
CurrentAfterPopFirst(vers) == vers[1]

\* Line 944: the last remaining entry becomes current.
CurrentAfterPop(vers) == Last(vers)

\* POST /revert/<doc_id>
revert(doc_id) ==
  /\ Receive([op |-> "revert", doc_id |-> doc_id])
  /\ UNCHANGED storage
  /\ IF doc_id \notin DOMAIN DOCS
     THEN /\ resp' = [status |-> 404, ok |-> FALSE, error |-> "doc not found"]
          /\ UNCHANGED DOCS
     ELSE LET vers == DOCS[doc_id].versions IN
          IF NoPreviousVersion(vers)
          THEN /\ resp' = [status |-> 400, ok |-> FALSE, error |-> "no previous version"]
               /\ UNCHANGED DOCS
          ELSE LET popped == Front(vers) IN
               IF popped = <<>>
               THEN \* vers[-1] of an empty list raises after the pop: a 500
                    /\ DOCS' = [DOCS EXCEPT ![doc_id].versions = popped]
                    /\ resp' = [status |-> 500, error |-> "IndexError"]
               ELSE /\ DOCS' = [DOCS EXCEPT ![doc_id].versions = popped,
                                            ![doc_id].working = CurrentAfterPop(popped)]
                    /\ resp' = [status |-> 200, ok |-> TRUE, version |-> Len(popped)]

\* GET /download/<doc_id>
download(doc_id) ==
  /\ Receive([op |-> "download", doc_id |-> doc_id])
  /\ UNCHANGED <<DOCS, storage>>
  /\ IF doc_id \notin DOMAIN DOCS
     THEN resp' = [status |-> 404, error |-> "doc not found"]
     ELSE resp' = [status |-> 200, data |-> Storage_get(storage, DOCS[doc_id].working),
                   download_name |-> DOCS[doc_id].name]


(***************************************************************************)
(* The browser client (the script of INDEX_HTML).                          *)
(*   state        the `state` object: tool, stack (the pending actions),   *)
(*                history (JSON snapshots of stack), historyIdx, drawing,  *)
(*                start, stroke, signatureDataURL, sel, draggingSel        *)
(*   docId        the uploaded document's id, None before any upload       *)
(*   currentPage  the page shown                                           *)
(*   overlay      [width, height] of the overlay canvas                    *)
(* Coordinates are integers counting 1/Sub of a pixel, so that the halves  *)
(* enforceMinRect produces are exact.  stack[i + 1] is JavaScript's        *)
(* state.stack[i]; historyIdx and sel.index keep JavaScript's numbering.   *)
(***************************************************************************)
VARIABLES state, docId, currentPage, overlay

cvars == <<state, docId, currentPage, overlay>>

\* Grid steps per pixel.
Sub == 2
Px(n) == n * Sub

\* Line 284.
MIN_PIX == 3
HANDLE == 8
HIT_PAD == 6

\* Lines 256-263: the state object as the script creates it.  state.start is
\* undefined until the first mousedown assigns it; no handler reads it before.
InitialState ==
  [tool |-> None, stack |-> <<>>, history |-> <<>>, historyIdx |-> -1,
   drawing |-> FALSE, start |-> <<0, 0>>, stroke |-> <<>>,
   signatureDataURL |-> None, sel |-> [k \in {} |-> None], draggingSel |-> FALSE]

\* state.sel === null
NoSel == [k \in {} |-> None]

\* JSON.stringify(state.stack) and JSON.parse of it: the string holds a deep
\* copy of the list (every field of an action is a finite number, a string or
\* an array of those, which JSON writes and reads back exactly).
JSONstringify(stack) == [json |-> stack]
JSONparse(str) == str.json

Min(a, b) == IF a <= b THEN a ELSE b
Max(a, b) == IF a >= b THEN a ELSE b
Abs(a) == IF a >= 0 THEN a ELSE -a

\* dist(a, b) <= d for a distance d in pixels (Math.hypot, compared squared).
DistAtMost(a, b, d) ==
  (b[1] - a[1]) * (b[1] - a[1]) + (b[2] - a[2]) * (b[2] - a[2]) <= Px(d) * Px(d)

\* pointToSegment(p, a, b) <= d (lines 619-624).
PointToSegmentAtMost(p, a, b, d) ==
  LET vx == b[1] - a[1]  vy == b[2] - a[2]
      wx == p[1] - a[1]  wy == p[2] - a[2]
      c1 == vx * wx + vy * wy
      c2 == vx * vx + vy * vy
  IN IF c1 <= 0 THEN DistAtMost(p, a, d)
     ELSE IF c2 <= c1 THEN DistAtMost(p, b, d)
     ELSE (wx * wx + wy * wy) * c2 - c1 * c1 <= Px(d) * Px(d) * c2

\* rectHandles(r): the corners nw, ne, se, sw.
rectHandles(r) == << <<r[1], r[2]>>, <<r[3], r[2]>>, <<r[3], r[4]>>, <<r[1], r[4]>> >>
HandleNames == <<"nw", "ne", "se", "sw">>

Hit(i, page, handle) == [kind |-> "hit", index |-> i, page |-> page, handle |-> handle]
Miss == [kind |-> "null"]
\* rectHandles(a.rect) of an action without a rect (ink) reads r[0] of undefined.
Throws == [kind |-> "throws"]

\* The body of hitTestAt's loop for the action a at index i (lines 600-615):
\* a hit, Throws, or Miss to go on with the next index.
HitTestOne(a, i, page, x, y) ==
  IF a.page # page THEN Miss
  ELSE IF a.type \in {"line", "arrow"} THEN
    IF DistAtMost(<<x, y>>, a.points[1], HANDLE) THEN Hit(i, page, "p1")
    ELSE IF DistAtMost(<<x, y>>, a.points[2], HANDLE) THEN Hit(i, page, "p2")
    ELSE IF PointToSegmentAtMost(<<x, y>>, a.points[1], a.points[2], HIT_PAD)
         THEN Hit(i, page, "move")
    ELSE Miss
  ELSE IF "rect" \notin DOMAIN a THEN Throws
  ELSE
    LET r == a.rect
        hs == rectHandles(r)
        on == {h \in 1..4 : Abs(x - hs[h][1]) <= Px(HANDLE) /\ Abs(y - hs[h][2]) <= Px(HANDLE)}
    IN IF on # {} THEN Hit(i, page, HandleNames[CHOOSE h \in on : \A g \in on : h <= g])
       ELSE IF /\ x >= r[1] - Px(HIT_PAD) /\ x <= r[3] + Px(HIT_PAD)
               /\ y >= r[2] - Px(HIT_PAD) /\ y <= r[4] + Px(HIT_PAD)
            THEN Hit(i, page, "move")
       ELSE Miss

\* Mutant: the scan runs from index 0 upwards.
HitTestFromBottom(stack, i, page, x, y) ==
  LET hits == {k \in 0..i : HitTestOne(stack[k + 1], k, page, x, y).kind = "hit"}
  IN IF hits = {} THEN Miss
     ELSE LET k == CHOOSE k \in hits : \A j \in hits : k <= j
          IN HitTestOne(stack[k + 1], k, page, x, y)

\* hitTestAt(x, y), scanning from index i down to 0 (lines 598-618).
RECURSIVE HitTestFrom(_, _, _, _, _)
HitTestFrom(stack, i, page, x, y) ==
  IF i < 0 THEN Miss
  ELSE LET h == HitTestOne(stack[i + 1], i, page, x, y) IN
       IF h.kind = "null" THEN HitTestFrom(stack, i - 1, page, x, y) ELSE h

hitTestAt(x, y) == HitTestFrom(state.stack, Len(state.stack) - 1, currentPage, x, y)

\* ---- history (lines 342-376) ---------------------------------------------
clearSelection(st) == [st EXCEPT !.sel = NoSel]

\* Mutant: the snapshots after the cursor are kept.
snapshotKeepsRedo(st) ==
  [st EXCEPT !.history = Append(@, JSONstringify(st.stack)), !.historyIdx = @ + 1]

\* history.slice(0, historyIdx + 1), push, historyIdx = length - 1.
snapshot(st) ==
  LET h == Append(SubSeq(st.history, 1, st.historyIdx + 1), JSONstringify(st.stack))
  IN [st EXCEPT !.history = h, !.historyIdx = Len(h) - 1]

undo(st) ==
  IF st.historyIdx > 0
  THEN clearSelection([st EXCEPT !.historyIdx = @ - 1,
                                 !.stack = JSONparse(st.history[st.historyIdx])])
  ELSE st

redo(st) ==
  IF st.historyIdx < Len(st.history) - 1
  THEN clearSelection([st EXCEPT !.historyIdx = @ + 1,
                                 !.stack = JSONparse(st.history[st.historyIdx + 2])])
  ELSE st

\* Mutant: the stacks are emptied and no snapshot is taken.
resetStacksNoSnapshot(st) ==
  clearSelection([st EXCEPT !.stack = <<>>, !.history = <<>>, !.historyIdx = -1])

\* Lines 342-345.
resetStacks(st) ==
  clearSelection(snapshot([st EXCEPT !.stack = <<>>, !.history = <<>>, !.historyIdx = -1]))

\* ---- drag of the selection (lines 627-654) -------------------------------
clampX(v) == Max(0, Min(Px(overlay.width), v))
clampY(v) == Max(0, Min(Px(overlay.height), v))

\* (a + b) / 2 - 3 / 2 and (a + b) / 2 + 3 / 2 of enforceMinRect, on the grid.
CentreMinus(a, b) == (a + b - MIN_PIX * Sub) \div 2
CentrePlus(a, b) == (a + b + MIN_PIX * Sub) \div 2

\* enforceMinRect: r is read once, before either assignment to a.rect, so the
\* second assignment starts again from the x coordinates of r.
enforceMinRect(r) ==
  LET w == r[3] - r[1]
      h == r[4] - r[2]
      wide == IF w < Px(MIN_PIX)
              THEN <<CentreMinus(r[1], r[3]), r[2], CentrePlus(r[1], r[3]), r[4]>>
              ELSE r
  IN IF h < Px(MIN_PIX)
     THEN <<r[1], CentreMinus(r[2], r[4]), r[3], CentrePlus(r[2], r[4])>>
     ELSE wide

\* The halves enforceMinRect takes of r are on the grid.
MinRectOnGrid(r) ==
  /\ r[3] - r[1] < Px(MIN_PIX) => (r[1] + r[3]) % 2 = 0
  /\ r[4] - r[2] < Px(MIN_PIX) => (r[2] + r[4]) % 2 = 0

\* The rect applyDragToSelection computes from the drag-start rect, before
\* enforceMinRect (lines 646-652).
DraggedRect(start, handle, dx, dy) ==
  LET x0 == start[1]  y0 == start[2]  x1 == start[3]  y1 == start[4] IN
  IF handle = "move"
  THEN <<clampX(x0 + dx), clampY(y0 + dy), clampX(x1 + dx), clampY(y1 + dy)>>
  ELSE LET nx0 == IF handle \in {"nw", "sw"} THEN clampX(x0 + dx) ELSE x0
           nx1 == IF handle \in {"ne", "se"} THEN clampX(x1 + dx) ELSE x1
           ny0 == IF handle \in {"nw", "ne"} THEN clampY(y0 + dy) ELSE y0
           ny1 == IF handle \in {"se", "sw"} THEN clampY(y1 + dy) ELSE y1
       IN <<Min(nx0, nx1), Min(ny0, ny1), Max(nx0, nx1), Max(ny0, ny1)>>

\* applyDragToSelection(pt): the state with the selected action's geometry
\* recomputed from the drag start and the pointer's offset.
applyDragToSelection(st, pt) ==
  LET s == st.sel
      a == st.stack[s.index + 1]
      dx == pt[1] - s.startMouse[1]
      dy == pt[2] - s.startMouse[2]
  IN
  IF a.type \in {"line", "arrow"} THEN
    LET sp == IF "startPoints" \in DOMAIN s THEN s.startPoints ELSE a.points
        moved(i) == <<clampX(sp[i][1] + dx), clampY(sp[i][2] + dy)>>
        pts == IF s.handle = "p1" THEN <<moved(1), a.points[2]>>
               ELSE IF s.handle = "p2" THEN <<a.points[1], moved(2)>>
               ELSE <<moved(1), moved(2)>>
    IN [st EXCEPT !.sel = [k \in DOMAIN s \cup {"startPoints"} |->
                             IF k = "startPoints" THEN sp ELSE s[k]],
                  !.stack[s.index + 1].points = pts]
  ELSE
    LET sr == IF "startRect" \in DOMAIN s THEN s.startRect ELSE a.rect
    IN [st EXCEPT !.sel = [k \in DOMAIN s \cup {"startRect"} |->
                             IF k = "startRect" THEN sr ELSE s[k]],
                  !.stack[s.index + 1].rect =
                     enforceMinRect(DraggedRect(sr, s.handle, dx, dy))]

\* The drag to pt keeps every coordinate on the grid.
DragOnGrid(st, pt) ==
  LET s == st.sel
      a == st.stack[s.index + 1]
  IN a.type \notin {"line", "arrow"} =>
       MinRectOnGrid(DraggedRect(IF "startRect" \in DOMAIN s THEN s.startRect ELSE a.rect,
                                 s.handle, pt[1] - s.startMouse[1], pt[2] - s.startMouse[2]))

\* ---- creation (lines 685-713) --------------------------------------------
Tools == {"highlight", "strikeout", "rect", "circle", "line", "arrow", "ink",
          "textbox", "tick", "cross", "signature"}

\* buildActionFromDrag returned null.
NoAct == [k \in {} |-> None]

\* The `type` the tool's actions carry.
ToolType(tool) ==
  IF tool = "rect" THEN "shape_rect" ELSE IF tool = "circle" THEN "shape_circle" ELSE tool

\* buildActionFromDrag(p1, p2, false); text is what prompt() returned for a
\* textbox ("" when it was cancelled or left empty).
buildActionFromDrag(st, p1, p2, text) ==
  LET rect == <<Min(p1[1], p2[1]), Min(p1[2], p2[2]), Max(p1[1], p2[1]), Max(p1[2], p2[2])>>
      w == rect[3] - rect[1]
      h == rect[4] - rect[2]
      small == w < Px(MIN_PIX) \/ h < Px(MIN_PIX)
      dx == p2[1] - p1[1]
      dy == p2[2] - p1[2]
  IN
  IF st.tool = "signature" THEN
    IF st.signatureDataURL = None THEN NoAct
    ELSE LET rw == IF small THEN Px(180) ELSE w
             rh == IF small THEN Px(60) ELSE h
         IN [type |-> "signature", page |-> currentPage,
             rect |-> <<rect[1], rect[2], rect[1] + rw, rect[2] + rh>>,
             image_data_url |-> st.signatureDataURL]
  ELSE IF st.tool = "textbox" THEN
    IF small THEN NoAct
    ELSE [type |-> "textbox", page |-> currentPage, rect |-> rect, text |-> text]
  ELSE IF st.tool \in {"highlight", "strikeout", "rect", "circle", "tick", "cross"} THEN
    IF small THEN NoAct
    ELSE [type |-> ToolType(st.tool), page |-> currentPage, rect |-> rect]
  ELSE IF st.tool \in {"line", "arrow"} THEN
    IF dx * dx + dy * dy < Px(MIN_PIX) * Px(MIN_PIX) THEN NoAct
    ELSE [type |-> st.tool, page |-> currentPage, points |-> <<p1, p2>>]
  ELSE NoAct

(***************************************************************************)
(* Requests the server is sent.                                            *)
(***************************************************************************)
EmptyMap == [k \in {} |-> None]

Act(t, p) == [type |-> t, page |-> p, geometry |-> "ok", payload |-> "png", writer |-> "ok"]

\* The actions of the ledger specification: a well-formed one, one beyond
\* every page count, one of unknown kind and one the writer rejects.
LedgerActions ==
  { Act("highlight", 0),
    Act("highlight", MaxPages),
    Act("bogus", 0),
    [Act("shape_rect", 0) EXCEPT !.writer = "raises"] }

\* One action per path through the loop body.
AllActions ==
  LedgerActions \cup
  { Act("highlight", -1),                                   \* negative page index
    Act("line", 1),                                         \* page 1: in range iff 2+ pages
    [page |-> 0, geometry |-> "ok", payload |-> "png", writer |-> "ok"],      \* no "type"
    [type |-> "highlight", geometry |-> "ok", payload |-> "png", writer |-> "ok"], \* no "page"
    [Act("textbox", 0) EXCEPT !.geometry = "missing"],      \* no "rect"
    [Act("ink", 0) EXCEPT !.geometry = "onepoint"],         \* ink with nothing to draw
    [Act("signature", 0) EXCEPT !.payload = "nocomma"],     \* payload decodes to b""
    [Act("signature", 0) EXCEPT !.payload = "badpadding"] } \* b64decode raises

RECURSIVE SeqsUpTo(_, _)
SeqsUpTo(S, n) ==
  IF n = 0 THEN {<<>>}
  ELSE LET shorter == SeqsUpTo(S, n - 1) IN
       shorter \cup {Append(q, x) : q \in {r \in shorter : Len(r) = n - 1}, x \in S}

Bodies(actions) ==
  {[malformed |-> TRUE], EmptyMap} \cup {[actions |-> q] : q \in SeqsUpTo(actions, MaxBatch)}

FileName(suffix) == [stem |-> "doc", suffix |-> suffix]

UploadInputs ==
  {NoFile, [filename |-> FileName(".txt"), bytes |-> PdfBytes(1)],
         [filename |-> FileName(".PDF"), bytes |-> Garbage]}
  \cup {[filename |-> FileName(".pdf"), bytes |-> PdfBytes(n)] : n \in 1..MaxPages}

DocInputs == DocIds \cup {UnknownDoc}

(***************************************************************************)
(* The client's event handlers.  Each is the whole handler: a handler that *)
(* throws stops where it threw, with the assignments made until then.      *)
(***************************************************************************)
\* What prompt() returned: None for Cancel, else the text typed.
PromptResults == {None, "hi"}

\* sigPad.toDataURL('image/png') (line 725).
SignatureURL == "data:image/png;base64,sig"

\* The canvas before any page was rendered, and after syncOverlaySize.
DefaultCanvas == [width |-> 300, height |-> 150]
PageCanvas == [width |-> 60, height |-> 60]

\* Toolbar button (lines 286-292).
toolClick(t) ==
  /\ state' = [state EXCEPT !.tool = t]
  /\ UNCHANGED <<docId, currentPage, overlay>>

\* "Use signature" (line 725).
sigUse ==
  /\ state' = [state EXCEPT !.signatureDataURL = SignatureURL, !.tool = "signature"]
  /\ UNCHANGED <<docId, currentPage, overlay>>

\* overlay mousedown (lines 434-445).
mousedown(pt) ==
  LET hit == hitTestAt(pt[1], pt[2]) IN
  /\ state' =
       IF hit.kind = "throws" THEN state
       ELSE IF hit.kind = "hit"
       THEN [state EXCEPT !.sel = [index |-> hit.index, page |-> hit.page,
                                   handle |-> hit.handle, startMouse |-> pt],
                          !.draggingSel = TRUE]
       ELSE LET c == clearSelection(state) IN
            IF c.tool = None THEN c
            ELSE [c EXCEPT !.drawing = TRUE, !.start = pt,
                           !.stroke = IF c.tool = "ink" THEN <<pt>> ELSE @]
  /\ UNCHANGED <<docId, currentPage, overlay>>

\* overlay mousemove (lines 447-456).  A selection made by Duplicate has no
\* startMouse: applyDragToSelection throws reading it and nothing is assigned.
mousemove(pt) ==
  /\ state' =
       IF state.draggingSel /\ state.sel # NoSel
       THEN IF "startMouse" \in DOMAIN state.sel
            THEN applyDragToSelection(state, pt) ELSE state
       ELSE IF ~state.drawing THEN state
       ELSE IF state.tool = "ink" THEN [state EXCEPT !.stroke = Append(@, pt)]
       ELSE state
  /\ UNCHANGED <<docId, currentPage, overlay>>

\* Mutant: a stroke of one point is committed too.
StrokeCommitsDot(stroke) == Len(stroke) > 0

\* Line 465: a stroke is committed when it has more than one point.
StrokeCommits(stroke) == Len(stroke) > 1

\* overlay mouseup (lines 458-474); r is what prompt() returns if it is asked.
mouseup(pt, r) ==
  /\ state' =
       IF state.draggingSel /\ state.sel # NoSel
       THEN snapshot([state EXCEPT !.draggingSel = FALSE])
       ELSE IF ~state.drawing THEN state
       ELSE LET s1 == [state EXCEPT !.drawing = FALSE] IN
            IF s1.tool = "ink"
            THEN IF StrokeCommits(s1.stroke)
                 THEN [snapshot([s1 EXCEPT !.stack =
                          Append(@, [type |-> "ink", page |-> currentPage,
                                     points |-> <<s1.stroke>>])])
                       EXCEPT !.stroke = <<>>]
                 ELSE [s1 EXCEPT !.stroke = <<>>]
            ELSE LET act == buildActionFromDrag(s1, s1.start, pt,
                                                IF r = None THEN "" ELSE r)
                 IN IF act = NoAct THEN s1
                    ELSE snapshot([s1 EXCEPT !.stack = Append(@, act)])
  /\ UNCHANGED <<docId, currentPage, overlay>>

\* overlay dblclick (lines 476-483).
dblclick(r) ==
  LET s == state.sel IN
  /\ state' =
       IF s = NoSel THEN state
       ELSE IF /\ s.index < Len(state.stack)
               /\ state.stack[s.index + 1].type = "textbox"
               /\ state.stack[s.index + 1].page = currentPage
               /\ r # None
       THEN snapshot([state EXCEPT !.stack[s.index + 1].text = r])
       ELSE state
  /\ UNCHANGED <<docId, currentPage, overlay>>

\* stack.splice(index, 1)
Splice(stack, index) ==
  [i \in 1..(Len(stack) - 1) |-> IF i <= index THEN stack[i] ELSE stack[i + 1]]

\* deleteSelected (lines 658-661), from the Delete button or key.
deleteSelected ==
  /\ state' =
       IF state.sel = NoSel THEN state
       ELSE snapshot([state EXCEPT !.stack = Splice(@, state.sel.index), !.sel = NoSel])
  /\ UNCHANGED <<docId, currentPage, overlay>>

\* Mutant: the copy is shifted to the right only.
ShiftedAcross(a) ==
  LET b == IF "rect" \in DOMAIN a
           THEN [a EXCEPT !.rect = <<@[1] + Px(8), @[2], @[3] + Px(8), @[4]>>]
           ELSE a
  IN IF "points" \in DOMAIN b
     THEN [b EXCEPT !.points = [i \in DOMAIN @ |-> <<@[i][1] + Px(8), @[i][2]>>]]
     ELSE b

\* The copy Duplicate makes (lines 667-669): rect and points shifted by 8.
\* An ink's points are strokes, and stroke + 8 is not a point.
Shifted(a) ==
  LET b == IF "rect" \in DOMAIN a
           THEN [a EXCEPT !.rect = <<@[1] + Px(8), @[2] + Px(8), @[3] + Px(8), @[4] + Px(8)>>]
           ELSE a
  IN IF "points" \in DOMAIN b
     THEN [b EXCEPT !.points =
             IF b.type = "ink" THEN [i \in DOMAIN @ |-> <<"NaN", "NaN">>]
             ELSE [i \in DOMAIN @ |-> <<@[i][1] + Px(8), @[i][2] + Px(8)>>]]
     ELSE b

\* btnDup click (lines 664-671).
btnDup ==
  /\ state' =
       IF state.sel = NoSel THEN state
       ELSE LET st == snapshot([state EXCEPT !.stack =
                                  Append(@, Shifted(state.stack[state.sel.index + 1]))])
            IN [st EXCEPT !.sel = [index |-> Len(st.stack) - 1, page |-> currentPage,
                                   handle |-> "move"]]
  /\ UNCHANGED <<docId, currentPage, overlay>>

\* Escape (line 304).
escape ==
  /\ state' = clearSelection(state)
  /\ UNCHANGED <<docId, currentPage, overlay>>

\* Ctrl+Z / Undo button, Ctrl+Y / Redo button (lines 301-302, 358-359).
keyUndo ==
  /\ state' = undo(state)
  /\ UNCHANGED <<docId, currentPage, overlay>>

keyRedo ==
  /\ state' = redo(state)
  /\ UNCHANGED <<docId, currentPage, overlay>>

\* File input change (lines 327-340): POST /upload, then docId, resetStacks,
\* loadThumbs and renderPage(0); loadThumbs fails on bytes that do not open.
fileChange(f) ==
  /\ f # NoFile
  /\ upload(f)
  /\ IF resp'.status # 200 THEN UNCHANGED cvars
     ELSE /\ docId' = resp'.doc_id
          /\ state' = resetStacks(state)
          /\ IF FitzOpen(f.bytes).ok
             THEN currentPage' = 0 /\ overlay' = PageCanvas
             ELSE UNCHANGED <<currentPage, overlay>>

\* Thumbnail click: renderPage(p) (lines 410, 423-429).  loadThumbs made one
\* thumbnail for each page of the working file.
thumbClick(p) ==
  /\ docId \in DOMAIN DOCS
  /\ FitzOpen(Storage_get(storage, DOCS[docId].working)).ok
  /\ p \in 0..(Storage_get(storage, DOCS[docId].working).np - 1)
  /\ currentPage' = p
  /\ overlay' = PageCanvas
  /\ UNCHANGED <<state, docId>>

\* The canvas after the page image was reloaded at another zoom level, or the
\* window resized (lines 325, 415-421).
ZoomedCanvas == [width |-> 100, height |-> 100]
CanvasSizes == {PageCanvas, ZoomedCanvas}

\* Zoom input (line 325): zoom = value, then renderPage(), which returns at
\* once without a document and else reloads the image and sizes the canvas
\* to it.  The pending actions are not touched.
zoomInput(c) ==
  /\ overlay' = IF docId = None THEN overlay ELSE c
  /\ UNCHANGED <<state, docId, currentPage>>

\* One pending action as the save handler sends it (line 382): the action's
\* own fields and the viewport, with what the server's loop will find in it.
Sent(a, viewport) ==
  [k \in DOMAIN a \cup {"viewport", "geometry", "payload", "writer"} |->
     IF k = "viewport" THEN viewport
     ELSE IF k = "geometry"
          THEN IF a.type = "ink" /\ Len(a.points[1]) < 2 THEN "onepoint" ELSE "ok"
     ELSE IF k = "payload" THEN "png"
     ELSE IF k = "writer" THEN "ok"
     ELSE a[k]]

\* Save button (lines 378-390): nothing without a document or pending
\* actions; else POST /annotate with every action given the canvas size of
\* this moment as its viewport, and on success resetStacks and renderPage().
btnSave(io) ==
  IF docId = None \/ state.stack = <<>>
  THEN UNCHANGED <<svars, cvars>>
  ELSE /\ annotate(docId,
                   [actions |-> [i \in 1..Len(state.stack) |->
                                   Sent(state.stack[i], [w |-> overlay.width,
                                                         h |-> overlay.height])]],
                   io)
       /\ IF RespOk(resp')
          THEN state' = resetStacks(state) /\ UNCHANGED <<docId, currentPage, overlay>>
          ELSE UNCHANGED cvars

\* Rollback button (lines 348-356): nothing without a document; else POST
\* /revert and on success resetStacks and renderPage().
btnUndoServer ==
  IF docId = None
  THEN UNCHANGED <<svars, cvars>>
  ELSE /\ revert(docId)
       /\ IF RespOk(resp')
          THEN state' = resetStacks(state) /\ UNCHANGED <<docId, currentPage, overlay>>
          ELSE UNCHANGED cvars

\* The Save handler up to its `await fetch` (lines 379-384): the batch is the
\* pending list of the click; the page's other handlers run until the
\* response arrives.
btnSaveClick(io) ==
  IF docId = None \/ state.stack = <<>>
  THEN UNCHANGED <<svars, cvars>>
  ELSE /\ annotate(docId,
                   [actions |-> [i \in 1..Len(state.stack) |->
                                   Sent(state.stack[i], [w |-> overlay.width,
                                                         h |-> overlay.height])]],
                   io)
       /\ UNCHANGED cvars

\* The Save handler from the arrival of the response (lines 385-389): on
\* success resetStacks and renderPage(), else the alert of the catch.
btnSaveResponse ==
  /\ IF RespOk(resp)
     THEN state' = resetStacks(state) /\ UNCHANGED <<docId, currentPage, overlay>>
     ELSE UNCHANGED cvars
  /\ UNCHANGED svars

\* Mutant: both axes are scaled by the viewport's width.
_scale_rectByWidth(rect, page_rect, viewport) ==
  LET vx == Max(1, viewport.w)
  IN <<(rect[1] * (page_rect[3] - page_rect[1])) \div (Sub * vx),
       (rect[2] * (page_rect[4] - page_rect[2])) \div (Sub * vx),
       (rect[3] * (page_rect[3] - page_rect[1])) \div (Sub * vx),
       (rect[4] * (page_rect[4] - page_rect[2])) \div (Sub * vx)>>

\* page.rect of every page of the documents modelled: 600 x 600 points, in
\* half points.
PageRect == <<0, 0, 1200, 1200>>

\* _scale_rect (lines 73-77) on client coordinates, which count 1/Sub of a
\* pixel; the divisions are exact for the canvases of CanvasSizes.
_scale_rect(rect, page_rect, viewport) ==
  LET vx == Max(1, viewport.w)
      vy == Max(1, viewport.h)
  IN <<(rect[1] * (page_rect[3] - page_rect[1])) \div (Sub * vx),
       (rect[2] * (page_rect[4] - page_rect[2])) \div (Sub * vy),
       (rect[3] * (page_rect[3] - page_rect[1])) \div (Sub * vx),
       (rect[4] * (page_rect[4] - page_rect[2])) \div (Sub * vy)>>

ClientInit ==
  /\ state = InitialState
  /\ docId = None
  /\ currentPage = 0
  /\ overlay = DefaultCanvas

ServerInit ==
  /\ DOCS = EmptyMap
  /\ storage = EmptyMap
  /\ req = NoReq
  /\ resp = NoResp
  /\ pre = NoPre
  /\ last = NoLast
  /\ frames = NoFrames

\* The editing session the undo/redo law is about: `phase` is "session" at
\* page load, "edit" while mutations are made, then "undo" and "redo"; base is
\* the history cursor when editing began, n the number of snapshots the
\* mutations took, k the undos (redos) done, final the list after the mutations.
VARIABLE script

NoScript == [phase |-> "none", base |-> -1, n |-> 0, k |-> 0, final |-> <<>>]

Init == ServerInit /\ ClientInit /\ script = NoScript

ServerNext(actions, ios) ==
  \/ \E f \in UploadInputs : upload(f) /\ UNCHANGED <<cvars, script>>
  \/ \E d \in DocInputs, body \in Bodies(actions), io \in ios :
        annotate(d, body, io) /\ UNCHANGED <<cvars, script>>
  \/ \E d \in DocInputs : revert(d) /\ UNCHANGED <<cvars, script>>
  \/ \E d \in DocInputs : download(d) /\ UNCHANGED <<cvars, script>>
  \/ Idle /\ UNCHANGED <<cvars, script>>

vars == <<svars, cvars, script>>

Next == ServerNext(LedgerActions, {"ok", "fails"})

\* The server under requests whose actions are LedgerActions, with storage
\* writes that may fail.
Spec == Init /\ [][Next]_vars

NextRequests == ServerNext(AllActions, {"ok"})

\* The server under requests whose actions are AllActions, with storage
\* writes that succeed.
SpecRequests == Init /\ [][NextRequests]_vars

\* ---- the editing session ------------------------------------------------
MaxMut == 3
MaxHist == 2
MaxStroke == 2

PointInputs == {<<Px(10), Px(10)>>, <<Px(30), Px(30)>>}
ToolInputs == {"rect", "line", "ink", "textbox"}
FileInputs == {[filename |-> FileName(".pdf"), bytes |-> PdfBytes(1)]}

\* The handlers that edit the pending list, on inputs that stay on the grid
\* and within the bounds.  Gestures are whole: the button that went down goes
\* up before it goes down again, and Escape is not pressed, and no button
\* clicked, while a selection is dragged.
Handler(tools, points) ==
  \/ \E t \in tools : toolClick(t)
  \/ sigUse
  \/ \E pt \in points : ~state.draggingSel /\ ~state.drawing /\ mousedown(pt)
  \/ \E pt \in points :
       /\ state.draggingSel /\ "startMouse" \in DOMAIN state.sel => DragOnGrid(state, pt)
       /\ Len(state.stroke) < MaxStroke
       /\ mousemove(pt)
  \/ \E pt \in points, r \in PromptResults : mouseup(pt, r)
  \/ \E r \in PromptResults : ~state.draggingSel /\ dblclick(r)
  \/ ~state.draggingSel /\ deleteSelected
  \/ ~state.draggingSel /\ btnDup
  \/ ~state.draggingSel /\ escape

\* The session starts at page load, with or without a file chosen.
OpenSession ==
  /\ script.phase = "session"
  /\ \/ \E f \in FileInputs : fileChange(f)
     \/ UNCHANGED <<svars, cvars>>
  /\ script' = [script EXCEPT !.phase = "edit", !.base = state'.historyIdx]

Mutate ==
  /\ script.phase = "edit"
  /\ Handler(ToolInputs, PointInputs)
  /\ state'.historyIdx - script.base <= MaxMut
  /\ UNCHANGED <<svars, script>>

\* N mutations were made; N undos follow.
BeginUndo ==
  /\ script.phase = "edit"
  /\ ~state.drawing /\ ~state.draggingSel
  /\ script' = [script EXCEPT !.phase = "undo", !.n = state.historyIdx - script.base,
                              !.k = 0, !.final = state.stack]
  /\ UNCHANGED <<svars, cvars>>

UndoStep ==
  /\ script.phase = "undo"
  /\ script.k < script.n
  /\ keyUndo
  /\ script' = [script EXCEPT !.k = @ + 1]
  /\ UNCHANGED svars

BeginRedo ==
  /\ script.phase = "undo"
  /\ script.k = script.n
  /\ script' = [script EXCEPT !.phase = "redo", !.k = 0]
  /\ UNCHANGED <<svars, cvars>>

RedoStep ==
  /\ script.phase = "redo"
  /\ script.k < script.n
  /\ keyRedo
  /\ script' = [script EXCEPT !.k = @ + 1]
  /\ UNCHANGED svars

InitUndo == ServerInit /\ ClientInit /\ script = [NoScript EXCEPT !.phase = "session"]

NextUndo == OpenSession \/ Mutate \/ BeginUndo \/ UndoStep \/ BeginRedo \/ RedoStep

\* A session of at most MaxMut mutations, then as many undos, then as many
\* redos.
SpecUndo == InitUndo /\ [][NextUndo]_vars


(***************************************************************************)
(* Properties of the version ledger.                                       *)
(***************************************************************************)
\* The bytes every key of `before` held are still stored under it in `after`.
Preserved(before, after) ==
  \A k \in DOMAIN before : k \in DOMAIN after /\ after[k] = before[k]

\* req is an annotate request for an uploaded document with a JSON body.
AnnotateOnDoc ==
  /\ req.op = "annotate"
  /\ req.doc_id \in DOMAIN pre.DOCS
  /\ "malformed" \notin DOMAIN req.body

\* req is an annotate request of at least one action for an uploaded document.
AnnotateBatchOnDoc ==
  /\ AnnotateOnDoc
  /\ "actions" \in DOMAIN req.body
  /\ Len(req.body.actions) > 0

\* The page count of the document req was sent for, as req found it
\* (0 when its bytes are no PDF).
PageCountBefore == pre.storage[pre.DOCS[req.doc_id].working].np

\* C1: an annotate request that returns a failure leaves DOCS (the ledger and
\* the current-version key) and the stored bytes of every existing key as it
\* found them, also when the failure comes after earlier actions of the batch
\* were applied in memory or while the new version is being stored.
C1_FailedAnnotateChangesNothing ==
  (req.op = "annotate" /\ ~RespOk(resp)) =>
    /\ DOCS = pre.DOCS
    /\ Preserved(pre.storage, storage)

\* C1 witness: a two-action batch failed on its second action, on a page the
\* document does not have, after its first action had changed the in-memory
\* document.
C1_Witness ==
  /\ AnnotateBatchOnDoc
  /\ ~RespOk(resp)
  /\ resp.error = "page not in document"
  /\ Len(req.body.actions) = 2
  /\ LET opened == FitzOpen(pre.storage[pre.DOCS[req.doc_id].working]) IN
     ApplyAction(opened.pdf, req.body.actions[1]).pdf # opened.pdf

\* C2: the ledger of every uploaded document has at least one entry.
C2_LedgerNonEmpty ==
  \A d \in DOMAIN DOCS : Len(DOCS[d].versions) >= 1

\* C2 witness: a revert was refused on a document that had been annotated
\* MaxSaves times and rolled back to its original.
C2_Witness ==
  /\ req.op = "revert"
  /\ req.doc_id \in DOMAIN DOCS
  /\ resp.status = 400
  /\ FreshKeys(req.doc_id) = {}
  /\ Len(DOCS[req.doc_id].versions) = 1

\* C3: a revert request on a document whose ledger has one entry returns an
\* error and leaves DOCS as it found it.
C3_RevertAtOriginalRefused ==
  (/\ req.op = "revert"
   /\ req.doc_id \in DOMAIN pre.DOCS
   /\ Len(pre.DOCS[req.doc_id].versions) = 1)
  => (~RespOk(resp) /\ "error" \in DOMAIN resp /\ DOCS = pre.DOCS)

\* C3 witness: a revert was answered for a freshly uploaded document.
C3_Witness ==
  /\ req.op = "revert"
  /\ req.doc_id \in DOMAIN pre.DOCS
  /\ Len(pre.DOCS[req.doc_id].versions) = 1
  /\ FreshKeys(req.doc_id) = 1..MaxSaves
  /\ resp.error = "no previous version"

\* C4: between requests the current-version key of every document is the last
\* entry of its ledger, and download returns the bytes stored under it.
C4_WorkingIsLastVersion ==
  /\ \A d \in DOMAIN DOCS : DOCS[d].working = Last(DOCS[d].versions)
  /\ (req.op = "download" /\ resp.status = 200) =>
       resp.data = storage[Last(DOCS[req.doc_id].versions)]

\* C4 witness: a revert succeeded and left a ledger of two or more entries.
C4_Witness ==
  /\ req.op = "revert"
  /\ RespOk(resp)
  /\ Len(DOCS[req.doc_id].versions) >= 2

\* C5: a successful annotate request with a non-empty batch appends exactly
\* one new entry, which becomes current; the earlier entries keep their
\* position and their stored bytes; the reported version is the new length.
C5_SuccessfulAnnotateAppendsOne ==
  (AnnotateBatchOnDoc /\ RespOk(resp)) =>
    LET old == pre.DOCS[req.doc_id].versions
        new == DOCS[req.doc_id].versions
    IN /\ Len(new) = Len(old) + 1
       /\ SubSeq(new, 1, Len(old)) = old
       /\ \A i \in 1..Len(old) : old[i] # Last(new)
       /\ DOCS[req.doc_id].working = Last(new)
       /\ Preserved(pre.storage, storage)
       /\ resp.version = Len(new)

\* C5 witness: an annotate succeeded on a ledger that already had two entries.
C5_Witness ==
  /\ AnnotateBatchOnDoc
  /\ RespOk(resp)
  /\ Len(pre.DOCS[req.doc_id].versions) = 2

C7_PageOutOfRangeFails ==
  (/\ AnnotateBatchOnDoc
   /\ \E i \in 1..Len(req.body.actions) :
        /\ "page" \in DOMAIN req.body.actions[i]
        /\ req.body.actions[i].page \notin 0..(PageCountBefore - 1))
  => (~RespOk(resp) /\ DOCS = pre.DOCS)

\* The kinds annotate dispatches on (lines 821-915).
SupportedKinds == RectKinds \cup LineKinds \cup {"ink"}

\* C8: an annotate request with an action of unknown or missing kind fails
\* and leaves the ledger unchanged.
C8_UnknownKindFails ==
  (/\ AnnotateBatchOnDoc
   /\ \E i \in 1..Len(req.body.actions) :
        Get(req.body.actions[i], "type") \notin SupportedKinds)
  => (~RespOk(resp) /\ DOCS = pre.DOCS)

\* C9: an annotate request with an empty or absent action list succeeds and
\* leaves DOCS and storage as it found them.
C9_EmptyBatchIsNoOp ==
  (/\ AnnotateOnDoc
   /\ ("actions" \in DOMAIN req.body => Len(req.body.actions) = 0))
  => (RespOk(resp) /\ DOCS = pre.DOCS /\ storage = pre.storage)

\* C9 witness: an empty action list was answered for an annotated document.
C9_Witness ==
  /\ AnnotateOnDoc
  /\ "actions" \in DOMAIN req.body
  /\ req.body.actions = <<>>
  /\ Len(DOCS[req.doc_id].versions) = 2
  /\ resp.message = "nothing to do"

\* ---- the server's rect helpers (lines 90-107) ------------------------------
\* Document coordinates count half points, so that centres and min_w / 2 are
\* exact.  A rect is <<x0, y0, x1, y1>> with x0 <= x1 and y0 <= y1, for which
\* every PyMuPDF version has Rect.width = x1 - x0 and Rect.height = y1 - y0.
Half == 2
Pt(n) == n * Half

RectWidth(r) == r[3] - r[1]
RectHeight(r) == r[4] - r[2]

_clip_rect(r, page_rect) ==
  <<Max(page_rect[1], Min(page_rect[3], r[1])), Max(page_rect[2], Min(page_rect[4], r[2])),
    Max(page_rect[1], Min(page_rect[3], r[3])), Max(page_rect[2], Min(page_rect[4], r[4]))>>

_ensure_min_rect(r, page_rect, min_w, min_h) ==
  LET cx == (r[1] + r[3]) \div 2
      cy == (r[2] + r[4]) \div 2
      r1 == IF RectWidth(r) < min_w
            THEN <<cx - min_w \div 2, r[2], cx + min_w \div 2, r[4]>> ELSE r
      r2 == IF RectHeight(r1) < min_h
            THEN <<r1[1], cy - min_h \div 2, r1[3], cy + min_h \div 2>> ELSE r1
      r3 == _clip_rect(r2, page_rect)
  IN IF RectWidth(r3) <= 0 \/ RectHeight(r3) <= 0
     THEN _clip_rect(<<cx - min_w \div 2, cy - min_h \div 2,
                       cx + min_w \div 2, cy + min_h \div 2>>, page_rect)
     ELSE r3

\* Lines 821-823: the minimum the annotate route asks for.
MIN_W == 2
MIN_H == 2

\* The rects and pages the helper is evaluated on: corners on whole points
\* from one point outside the page to one point outside it on the other side.
MaxCoord == 4
Coords == {Pt(c) : c \in -1..(MaxCoord + 1)}
RectInputs == {r \in Coords \X Coords \X Coords \X Coords : r[1] <= r[3] /\ r[2] <= r[4]}
PageRects == {<<0, 0, Pt(w), Pt(MaxCoord)>> : w \in {MIN_W, MaxCoord}}

\* One evaluation of _ensure_min_rect: the call is held in req, its value in
\* resp.
InitMinRect ==
  /\ DOCS = EmptyMap /\ storage = EmptyMap /\ pre = NoPre /\ last = NoLast
  /\ frames = NoFrames
  /\ ClientInit /\ script = NoScript
  /\ resp = NoResp
  /\ \E r \in RectInputs, pr \in PageRects :
       req = [op |-> "_ensure_min_rect", r |-> r, page_rect |-> pr]

EnsureMinRect ==
  /\ req # NoReq /\ resp = NoResp
  /\ resp' = [status |-> 0,
              rect |-> _ensure_min_rect(req.r, req.page_rect, Pt(MIN_W), Pt(MIN_H))]
  /\ UNCHANGED <<DOCS, storage, req, pre, last, frames, cvars, script>>

\* Line 823 as annotate calls it, on the rect already clipped to the page.
EnsureMinRectOfClipped ==
  /\ req # NoReq /\ resp = NoResp
  /\ resp' = [status |-> 0, clipped |-> TRUE,
              rect |-> _ensure_min_rect(_clip_rect(req.r, req.page_rect), req.page_rect,
                                        Pt(MIN_W), Pt(MIN_H))]
  /\ UNCHANGED <<DOCS, storage, req, pre, last, frames, cvars, script>>

NextMinRect == EnsureMinRect \/ EnsureMinRectOfClipped

SpecMinRect == InitMinRect /\ [][NextMinRect]_vars

(***************************************************************************)
(* _scale_rect on its own: a pixel rect, a page and an integer viewport    *)
(* are drawn, and the rect is mapped with the viewport and with the        *)
(* viewport of twice the width and height.                                 *)
(***************************************************************************)
MaxView == 6
\* Viewport dimensions that divide the page dimensions, they and their
\* doubles, so that every mapped coordinate is a whole number of half points.
ViewDims == {v \in 1..MaxView : 1200 % (2 * v) = 0}
ScalePixels == {Px(0), Px(1), Px(3)}
ScaleRects == {<<x0, y0, x1, y1>> : x0 \in ScalePixels, y0 \in ScalePixels,
                                    x1 \in ScalePixels, y1 \in ScalePixels}
ScalePages == {<<0, 0, 1200, 1200>>, <<0, 0, 1200, 2400>>}

Doubled(viewport) == [w |-> 2 * viewport.w, h |-> 2 * viewport.h]

InitScale ==
  /\ DOCS = EmptyMap /\ storage = EmptyMap /\ pre = NoPre /\ last = NoLast
  /\ frames = NoFrames
  /\ ClientInit /\ script = NoScript
  /\ resp = NoResp
  /\ \E r \in ScaleRects, pr \in ScalePages, w \in ViewDims, h \in ViewDims :
       req = [op |-> "_scale_rect", rect |-> r, page_rect |-> pr,
              viewport |-> [w |-> w, h |-> h]]

ScaleRect ==
  /\ req # NoReq /\ resp = NoResp
  /\ resp' = [status |-> 0,
              rect |-> _scale_rect(req.rect, req.page_rect, req.viewport),
              doubled |-> _scale_rect(req.rect, req.page_rect, Doubled(req.viewport))]
  /\ UNCHANGED <<DOCS, storage, req, pre, last, frames, cvars, script>>

NextScale == ScaleRect

SpecScale == InitScale /\ [][NextScale]_vars

(***************************************************************************)
(* The geometry annotate hands to the writers: one action is drawn, with   *)
(* its rect or points in pixels (inside the viewport, outside it on either *)
(* side, inverted, of no extent), and the loop body computes the rect or   *)
(* the end points it writes.  Document coordinates count 1/Half of a point.*)
(***************************************************************************)
\* _scale_point (lines 79-82) on client coordinates.
_scale_point(pt, page_rect, viewport) ==
  LET vx == Max(1, viewport.w)
      vy == Max(1, viewport.h)
  IN <<(pt[1] * (page_rect[3] - page_rect[1])) \div (Sub * vx),
       (pt[2] * (page_rect[4] - page_rect[2])) \div (Sub * vy)>>

\* Mutant: the clipped rect is written as it is.
WriterRectClipped(a, page_rect) ==
  _clip_rect(_scale_rect(a.rect, page_rect, a.viewport), page_rect)

\* Lines 822-823: the rect of a rect-like action after scale, clip and
\* minimum size.
WriterRect(a, page_rect) ==
  _ensure_min_rect(_clip_rect(_scale_rect(a.rect, page_rect, a.viewport), page_rect),
                   page_rect, Pt(MIN_W), Pt(MIN_H))

\* Line 889: max(16.0, size * 1.6), exact for the sizes of FontSizes.
min_text_height(size) == Max(Pt(16), (16 * size * Half) \div 10)

\* Lines 890-891: a textbox rect lower than one line is extended downwards,
\* as far as the page's bottom.
TextboxRect(rect, page_rect, size) ==
  IF RectHeight(rect) < min_text_height(size)
  THEN <<rect[1], rect[2], rect[3], Min(page_rect[4], rect[2] + min_text_height(size))>>
  ELSE rect

\* Lines 864-867: the end points of a line or arrow; when they coincide the
\* second is moved by (5, 5), as far as the page's corner.
LineEnds(a, page_rect) ==
  LET p1 == _scale_point(a.points[1], page_rect, a.viewport)
      p2 == _scale_point(a.points[2], page_rect, a.viewport)
  IN IF p1 = p2
     THEN <<p1, <<Min(page_rect[3], p2[1] + Pt(5)), Min(page_rect[4], p2[2] + Pt(5))>>>>
     ELSE <<p1, p2>>

\* A page of MIN_W x MIN_H points shown at one pixel a point, and a page of
\* 10 * MaxCoord points a side shown at MaxCoord pixels a side.
GeometryPages ==
  { [page_rect |-> <<0, 0, Pt(MIN_W), Pt(MIN_H)>>, viewport |-> [w |-> MIN_W, h |-> MIN_H]],
    [page_rect |-> <<0, 0, Pt(10 * MaxCoord), Pt(10 * MaxCoord)>>,
     viewport |-> [w |-> MaxCoord, h |-> MaxCoord]] }
Pixels == {Px(c) : c \in -1..(MaxCoord + 1)}
FontSizes == {5, 10, 20}

GeometryActions ==
  {[type |-> "highlight", rect |-> <<x0, y0, x1, y1>>, viewport |-> g.viewport,
    page_rect |-> g.page_rect] :
      x0 \in Pixels, y0 \in Pixels, x1 \in Pixels, y1 \in Pixels, g \in GeometryPages}
  \cup
  {[type |-> "textbox", rect |-> <<x0, y0, x1, y1>>, font_size |-> s, viewport |-> g.viewport,
    page_rect |-> g.page_rect] :
      x0 \in Pixels, y0 \in Pixels, x1 \in {Px(MaxCoord)}, y1 \in Pixels, s \in FontSizes,
      g \in GeometryPages}
  \cup
  {[type |-> "line", points |-> <<<<x0, y0>>, <<x1, y1>>>>, viewport |-> g.viewport,
    page_rect |-> g.page_rect] :
      x0 \in Pixels, y0 \in Pixels, x1 \in Pixels, y1 \in Pixels, g \in GeometryPages}

InitGeometry ==
  /\ DOCS = EmptyMap /\ storage = EmptyMap /\ pre = NoPre /\ last = NoLast
  /\ frames = NoFrames
  /\ ClientInit /\ script = NoScript
  /\ resp = NoResp
  /\ \E a \in GeometryActions : req = [op |-> "annotate loop", a |-> a]

\* Lines 821-823 and the rect-like kinds' writers.
WriteRect ==
  /\ req # NoReq /\ resp = NoResp
  /\ req.a.type \in RectKinds \ {"textbox"}
  /\ resp' = [status |-> 0, written |-> WriterRect(req.a, req.a.page_rect)]
  /\ UNCHANGED <<DOCS, storage, req, pre, last, frames, cvars, script>>

\* Lines 821-823 and 885-898.
WriteTextbox ==
  /\ req # NoReq /\ resp = NoResp
  /\ req.a.type = "textbox"
  /\ resp' = [status |-> 0,
              written |-> TextboxRect(WriterRect(req.a, req.a.page_rect), req.a.page_rect,
                                      req.a.font_size)]
  /\ UNCHANGED <<DOCS, storage, req, pre, last, frames, cvars, script>>

\* Lines 863-874.
WriteLine ==
  /\ req # NoReq /\ resp = NoResp
  /\ req.a.type \in LineKinds
  /\ resp' = [status |-> 0, written |-> LineEnds(req.a, req.a.page_rect)]
  /\ UNCHANGED <<DOCS, storage, req, pre, last, frames, cvars, script>>

NextGeometry == WriteRect \/ WriteTextbox \/ WriteLine

SpecGeometry == InitGeometry /\ [][NextGeometry]_vars

\* ---- drawing, zooming and saving -------------------------------------------
\* A session that draws with the Rect tool, changes the zoom and saves.
\* script.final lists, for each pending action, the canvas it was drawn on.
Draw ==
  /\ script.phase = "edit"
  /\ \/ toolClick("rect")
     \/ \E pt \in PointInputs : ~state.draggingSel /\ ~state.drawing /\ mousedown(pt)
     \/ \E pt \in PointInputs :
          /\ state.draggingSel => DragOnGrid(state, pt)
          /\ mousemove(pt)
     \/ \E pt \in PointInputs : mouseup(pt, None)
  /\ Len(state'.history) <= MaxHist
  /\ script' = [script EXCEPT !.final = IF Len(state'.stack) > Len(state.stack)
                                        THEN Append(@, overlay) ELSE @]
  /\ UNCHANGED svars

Zoom ==
  /\ script.phase = "edit"
  /\ ~state.draggingSel /\ ~state.drawing
  /\ \E c \in CanvasSizes : zoomInput(c)
  /\ UNCHANGED <<svars, script>>

Save ==
  /\ script.phase = "edit"
  /\ ~state.draggingSel /\ ~state.drawing
  /\ btnSave("ok")
  /\ script' = [script EXCEPT !.phase = "saved"]

Answered ==
  /\ script.phase = "edit"
  /\ Idle
  /\ UNCHANGED <<cvars, script>>

NextSave == OpenSession \/ Draw \/ Zoom \/ Save \/ Answered

SpecSave == InitUndo /\ [][NextSave]_vars

\* ---- duplicate, then delete the original -----------------------------------
DupTools == {"rect", "line", "textbox"}
DupPoints == PointInputs \cup {<<Px(5), Px(5)>>}

\* One object is drawn and selected.
DrawOne ==
  /\ script.phase = "edit"
  /\ Handler(DupTools, DupPoints)
  /\ Len(state'.stack) <= 1
  /\ Len(state'.history) <= MaxHist
  /\ UNCHANGED <<svars, script>>

\* Duplicate is clicked: script.final keeps the original, script.base its index.
Duplicate ==
  /\ script.phase = "edit"
  /\ state.sel # NoSel /\ ~state.draggingSel /\ ~state.drawing
  /\ btnDup
  /\ script' = [script EXCEPT !.phase = "duplicated", !.base = state.sel.index,
                              !.final = <<state.stack[state.sel.index + 1]>>]
  /\ UNCHANGED svars

\* The original is selected again, by a press that hits it.
SelectOriginal ==
  /\ script.phase = "duplicated"
  /\ \/ \E pt \in DupPoints :
          /\ ~state.draggingSel /\ ~state.drawing
          /\ hitTestAt(pt[1], pt[2]).kind = "hit"
          /\ hitTestAt(pt[1], pt[2]).index = script.base
          /\ mousedown(pt)
     \/ \E pt \in DupPoints : mouseup(pt, None)
  /\ Len(state'.history) <= MaxHist + 2
  /\ UNCHANGED <<svars, script>>

DeleteOriginal ==
  /\ script.phase = "duplicated"
  /\ state.sel # NoSel /\ ~state.draggingSel
  /\ state.sel.index = script.base
  /\ deleteSelected
  /\ script' = [script EXCEPT !.phase = "deleted"]
  /\ UNCHANGED svars

NextDup == OpenSession \/ DrawOne \/ Duplicate \/ SelectOriginal \/ DeleteOriginal

SpecDup == InitUndo /\ [][NextDup]_vars

\* ---- the client, event by event ------------------------------------------

\* What the last handler that changed the client was, and what it started
\* from: the cursor (base), the number of snapshots (n), the length of the
\* stroke (k) and the pending list (final).
Event(ev) ==
  [phase |-> ev, base |-> state.historyIdx, n |-> Len(state.history),
   k |-> Len(state.stroke), final |-> state.stack]

Did(ev, handler) ==
  /\ handler
  /\ state'.historyIdx < MaxHist
  /\ script' = IF cvars' = cvars THEN script ELSE Event(ev)

ClientTools == {"rect", "ink"}

\* The handlers of Handler for the tools of ClientTools, and undo, redo and
\* upload between gestures.
NextClient ==
  \/ \E t \in ClientTools : Did("tool", toolClick(t)) /\ UNCHANGED svars
  \/ \E pt \in PointInputs :
       /\ ~state.draggingSel /\ ~state.drawing
       /\ Did("mousedown", mousedown(pt)) /\ UNCHANGED svars
  \/ \E pt \in PointInputs :
       /\ state.draggingSel /\ "startMouse" \in DOMAIN state.sel => DragOnGrid(state, pt)
       /\ Len(state.stroke) < MaxStroke
       /\ Did("mousemove", mousemove(pt)) /\ UNCHANGED svars
  \/ \E pt \in PointInputs, r \in PromptResults :
       Did("mouseup", mouseup(pt, r)) /\ UNCHANGED svars
  \/ \E r \in PromptResults :
       ~state.draggingSel /\ Did("dblclick", dblclick(r)) /\ UNCHANGED svars
  \/ ~state.draggingSel /\ Did("delete", deleteSelected) /\ UNCHANGED svars
  \/ ~state.draggingSel /\ Did("duplicate", btnDup) /\ UNCHANGED svars
  \/ ~state.draggingSel /\ Did("escape", escape) /\ UNCHANGED svars
  \/ ~state.draggingSel /\ Did("undo", keyUndo) /\ UNCHANGED svars
  \/ ~state.draggingSel /\ Did("redo", keyRedo) /\ UNCHANGED svars
  \/ \E f \in FileInputs :
       ~state.draggingSel /\ ~state.drawing /\ Did("file", fileChange(f))

\* The client from page load, the cursor staying within the first MaxHist
\* snapshots, so that the history holds at most MaxHist of them.
SpecClient == Init /\ [][NextClient]_vars

(***************************************************************************)
(* Hit testing: objects are drawn, and selected by a press and release     *)
(* without a move, on the pages of an uploaded document.                   *)
(***************************************************************************)
HitTools == {"rect", "line"}
HitFiles == {[filename |-> FileName(".pdf"), bytes |-> PdfBytes(MaxPages)]}

NextHit ==
  \/ \E f \in HitFiles : docId = None /\ fileChange(f) /\ UNCHANGED script
  \/ \E t \in HitTools : docId # None /\ toolClick(t) /\ UNCHANGED <<svars, script>>
  \/ \E pt \in DupPoints :
       /\ docId # None /\ ~state.draggingSel /\ ~state.drawing
       /\ mousedown(pt) /\ UNCHANGED <<svars, script>>
  \/ \E pt \in DupPoints :
       /\ mouseup(pt, None)
       /\ Len(state'.history) <= MaxHist + 1
       /\ UNCHANGED <<svars, script>>
  \/ \E p \in 0..(MaxPages - 1) :
       /\ docId # None /\ ~state.draggingSel /\ ~state.drawing
       /\ thumbClick(p) /\ UNCHANGED <<svars, script>>

SpecHit == Init /\ [][NextHit]_vars

(***************************************************************************)
(* Saves and rollbacks: objects are drawn, undone and redone, and the      *)
(* pending list is saved, with a storage write that may fail, or the       *)
(* document rolled back.  script.final keeps what the click found.         *)
(***************************************************************************)
SyncTools == {"rect"}
StorageOutcomes == {"ok", "fails"}

Kept == [stack |-> state.stack, history |-> state.history, historyIdx |-> state.historyIdx]

SyncEdit ==
  /\ script.phase = "edit"
  /\ script.k < MaxSaves
  /\ \/ Handler(SyncTools, PointInputs)
     \/ ~state.draggingSel /\ keyUndo
     \/ ~state.draggingSel /\ keyRedo
  /\ Len(state'.history) <= MaxHist
  /\ UNCHANGED <<svars, script>>

SyncSave ==
  /\ script.phase = "edit"
  /\ ~state.draggingSel /\ ~state.drawing
  /\ docId # None /\ state.stack # <<>>
  /\ script.k < MaxSaves
  /\ \E io \in StorageOutcomes : btnSave(io)
  /\ script' = [script EXCEPT !.phase = "saved", !.final = Kept, !.k = @ + 1]

SyncRollback ==
  /\ script.phase = "edit"
  /\ ~state.draggingSel /\ ~state.drawing
  /\ docId # None
  /\ script.k < MaxSaves
  /\ btnUndoServer
  /\ script' = [script EXCEPT !.phase = "rolledback", !.final = Kept, !.k = @ + 1]

\* The response was shown; editing goes on.
SyncResume ==
  /\ script.phase \in {"saved", "rolledback"}
  /\ Idle
  /\ script' = [script EXCEPT !.phase = "edit", !.final = <<>>]
  /\ UNCHANGED cvars

\* The upload of OpenSession has been answered.
SyncAnswered ==
  /\ script.phase = "edit"
  /\ Idle
  /\ UNCHANGED <<cvars, script>>

NextSync == OpenSession \/ SyncEdit \/ SyncSave \/ SyncRollback \/ SyncResume \/ SyncAnswered

SpecSync == InitUndo /\ [][NextSync]_vars

(***************************************************************************)
(* Saves whose response takes time: between the click on Save and the      *)
(* arrival of the response the page's handlers go on editing the pending   *)
(* list.  script.final keeps the batch that was sent and, once the         *)
(* response is in, the list it found.                                      *)
(***************************************************************************)
AsyncTools == {"rect"}

AsyncEdit ==
  /\ script.phase \in {"edit", "inflight"}
  /\ script.k < MaxSaves
  /\ Handler(AsyncTools, PointInputs)
  /\ Len(state'.history) <= MaxHist
  /\ UNCHANGED <<svars, script>>

AsyncSaveClick ==
  /\ script.phase = "edit"
  /\ ~state.draggingSel /\ ~state.drawing
  /\ docId # None /\ state.stack # <<>>
  /\ script.k < MaxSaves
  /\ \E io \in StorageOutcomes : btnSaveClick(io)
  /\ script' = [script EXCEPT !.phase = "inflight", !.final = [sent |-> state.stack]]

AsyncSaveResponse ==
  /\ script.phase = "inflight"
  /\ btnSaveResponse
  /\ script' = [script EXCEPT !.phase = "arrived", !.k = @ + 1,
                              !.final = [sent |-> @.sent, found |-> state.stack]]

\* The response was shown; editing goes on.
AsyncResume ==
  /\ script.phase = "arrived"
  /\ Idle
  /\ script' = [script EXCEPT !.phase = "edit", !.final = <<>>]
  /\ UNCHANGED cvars

\* The upload of OpenSession has been answered.
AsyncAnswered ==
  /\ script.phase = "edit"
  /\ Idle
  /\ UNCHANGED <<cvars, script>>

NextAsync ==
  OpenSession \/ AsyncEdit \/ AsyncSaveClick \/ AsyncSaveResponse \/ AsyncResume \/ AsyncAnswered

SpecAsync == InitUndo /\ [][NextAsync]_vars

(***************************************************************************)
(* Keys pressed during a gesture: the mouse button goes down, moves and    *)
(* comes up, and Escape, Delete, Ctrl+Z and Ctrl+Y are pressed with the    *)
(* button up or down.  script.phase is "pressed" while the button is down. *)
(***************************************************************************)
KeysTools == {"rect"}

KeysTool ==
  /\ script.phase = "edit"
  /\ \E t \in KeysTools : toolClick(t)
  /\ UNCHANGED <<svars, script>>

KeysDown ==
  /\ script.phase = "edit"
  /\ \E pt \in PointInputs : mousedown(pt)
  /\ script' = [script EXCEPT !.phase = "pressed"]
  /\ UNCHANGED svars

KeysMove ==
  /\ script.phase = "pressed"
  /\ \E pt \in PointInputs :
       /\ (state.draggingSel /\ "startMouse" \in DOMAIN state.sel) => DragOnGrid(state, pt)
       /\ mousemove(pt)
  /\ UNCHANGED <<svars, script>>

KeysUp ==
  /\ script.phase = "pressed"
  /\ \E pt \in PointInputs : mouseup(pt, None)
  /\ Len(state'.history) <= MaxHist
  /\ script' = [script EXCEPT !.phase = "edit"]
  /\ UNCHANGED svars

KeysPress ==
  /\ script.phase \in {"edit", "pressed"}
  /\ escape \/ deleteSelected \/ keyUndo \/ keyRedo
  /\ Len(state'.history) <= MaxHist
  /\ UNCHANGED <<svars, script>>

NextKeys == OpenSession \/ KeysTool \/ KeysDown \/ KeysMove \/ KeysUp \/ KeysPress

SpecKeys == InitUndo /\ [][NextKeys]_vars

(***************************************************************************)
(* Pages and Delete: rects are drawn and selected on the pages of an       *)
(* uploaded document, the page shown is changed by a click on a thumbnail, *)
(* and the Delete key is pressed.                                          *)
(***************************************************************************)
PagesTools == {"rect"}

\* Delete or Backspace (line 303).
keyDelete == state.sel # NoSel /\ deleteSelected

NextPages ==
  \/ \E f \in HitFiles : docId = None /\ fileChange(f) /\ UNCHANGED script
  \/ \E t \in PagesTools : docId # None /\ toolClick(t) /\ UNCHANGED <<svars, script>>
  \/ \E pt \in DupPoints :
       /\ docId # None /\ ~state.draggingSel /\ ~state.drawing
       /\ mousedown(pt) /\ UNCHANGED <<svars, script>>
  \/ \E pt \in DupPoints :
       /\ mouseup(pt, None)
       /\ Len(state'.history) <= MaxHist + 1
       /\ UNCHANGED <<svars, script>>
  \/ \E p \in 0..(MaxPages - 1) :
       /\ docId # None /\ ~state.draggingSel /\ ~state.drawing
       /\ thumbClick(p) /\ UNCHANGED <<svars, script>>
  \/ /\ ~state.draggingSel /\ ~state.drawing
     /\ keyDelete
     /\ Len(state'.history) <= MaxHist + 2
     /\ UNCHANGED <<svars, script>>

SpecPages == Init /\ [][NextPages]_vars

(***************************************************************************)
(* Selection drags on the page canvas: rects, lines and signatures are     *)
(* drawn, and dragged by their handles to points that reach the canvas's   *)
(* right edge.                                                             *)
(***************************************************************************)
DragTools == {"rect", "line"}
DragPoints == PointInputs \cup {<<Px(4), Px(20)>>, <<Px(60), Px(20)>>}

DragEdit ==
  /\ script.phase = "edit"
  /\ Handler(DragTools, DragPoints)
  /\ Len(state'.history) <= MaxHist
  /\ UNCHANGED <<svars, script>>

NextDrag == OpenSession \/ DragEdit

SpecDrag == InitUndo /\ [][NextDrag]_vars

(***************************************************************************)
(* The server with worker threads (app.run serves each request in a thread *)
(* of its own): an annotate call is two steps, with the other threads'     *)
(* steps in between.                                                       *)
(***************************************************************************)
ThreadActions == {Act("highlight", 0), Act("strikeout", 0)}
ThreadBatches == SeqsUpTo(ThreadActions, MaxBatch) \ {<<>>}

\* Lines 806-923 in thread t: the working file is opened and the batch is
\* applied to the document in memory; a failure is answered at once.
AnnotateOpen(t, doc_id, actions) ==
  /\ frames[t] = NoFrame
  /\ doc_id \in DOMAIN DOCS
  /\ LET r == AnnotateRun(doc_id, actions) IN
     IF r.ok
     THEN /\ frames' = [frames EXCEPT ![t] = [op |-> "annotate", doc_id |-> doc_id,
                                              pdf |-> r.pdf]]
          /\ UNCHANGED resp
     ELSE /\ resp' = [status |-> 400, ok |-> FALSE, error |-> r.error]
          /\ UNCHANGED frames
  /\ UNCHANGED <<DOCS, storage, req, pre, last>>

\* Lines 924-931 in thread t: the document in memory is stored under a new
\* key, which is made current and appended.
AnnotateClose(t) ==
  /\ frames[t] # NoFrame
  /\ FreshKeys(frames[t].doc_id) # {}
  /\ AnnotateCommit(frames[t].doc_id, frames[t].pdf, "ok")
  /\ frames' = [frames EXCEPT ![t] = NoFrame]
  /\ UNCHANGED <<req, pre, last>>

NextThreads ==
  \/ \E f \in FileInputs : upload(f) /\ UNCHANGED <<cvars, script>>
  \/ Idle /\ UNCHANGED <<cvars, script>>
  \/ \E t \in Threads, d \in DocIds, q \in ThreadBatches :
       AnnotateOpen(t, d, q) /\ UNCHANGED <<cvars, script>>
  \/ \E t \in Threads : AnnotateClose(t) /\ UNCHANGED <<cvars, script>>

SpecThreads == Init /\ [][NextThreads]_vars

\* C10: from the page-load state or the state after resetStacks, N mutations
\* followed by N undos leave the pending list empty, and N redos after them
\* leave it equal to the list after the mutations.
C10_UndoRedoRoundTrip ==
  /\ script.phase = "undo" /\ script.k = script.n => state.stack = <<>>
  /\ script.phase = "redo" /\ script.k = script.n => state.stack = script.final

\* C11: whenever the history holds a snapshot, the one at position 0 is the
\* empty pending list, and undo with the cursor at position 0 changes neither
\* the pending list nor the cursor.
C11_PositionZeroIsEmpty ==
  Len(state.history) >= 1 =>
    /\ JSONparse(state.history[1]) = <<>>
    /\ state.historyIdx = 0 =>
         /\ undo(state).stack = state.stack
         /\ undo(state).historyIdx = state.historyIdx

\* The handlers that snapshot: create and drag-commit (mouseup), text-edit
\* (dblclick), delete and duplicate.
Mutations == {"mouseup", "dblclick", "delete", "duplicate"}

\* The last handler was a mutation and took a snapshot.
JustSnapshotted == script.phase \in Mutations /\ state.historyIdx = script.base + 1

C13_EnsureMinRectKeepsMinimum ==
  "rect" \in DOMAIN resp =>
    /\ RectWidth(resp.rect) >= Pt(MIN_W)
    /\ RectHeight(resp.rect) >= Pt(MIN_H)
    /\ _clip_rect(resp.rect, req.page_rect) = resp.rect

\* A selection drag has moved the pointer over a rect-like object:
\* applyDragToSelection recorded the start rect and assigned the object's rect.
DraggedARect == state.draggingSel /\ "startRect" \in DOMAIN state.sel

\* C14: after every pointer-move of a selection drag on a rect-like object
\* its rect is at least MIN_PIX wide and high, hence of positive width and
\* height, also when a corner is dragged onto the opposite corner.
C14_DraggedRectKeepsMinimum ==
  DraggedARect =>
    LET r == state.stack[state.sel.index + 1].rect
    IN r[3] - r[1] >= Px(MIN_PIX) /\ r[4] - r[2] >= Px(MIN_PIX)

\* The handlers that would throw if they ran now: mousedown when hitTestAt
\* throws, mousemove when the dragged selection has no startMouse.  The other
\* handlers modelled have no throwing path.
MousedownThrows(pt) == hitTestAt(pt[1], pt[2]) = Throws
MousemoveThrows ==
  state.draggingSel /\ state.sel # NoSel /\ "startMouse" \notin DOMAIN state.sel

\* C15: the client never throws: in every reachable state pointer-down,
\* pointer-move, pointer-up, double-click, undo, redo, delete and duplicate
\* complete without an exception, whatever objects (ink included) are in the
\* pending list on the current page.
C15_ClientNeverThrows ==
  /\ \A pt \in PointInputs : ~MousedownThrows(pt)
  /\ ~MousemoveThrows

\* The save handler has sent the pending list.
SaveSent == script.phase = "saved" /\ req.op = "annotate"

\* C16: every action of a save batch carries the canvas size that was in
\* effect when it was drawn, so its mapped document rect is the one that
\* canvas gives, whatever the zoom did between drawing and saving.
C16_SavedWithCanvasOfDrawing ==
  SaveSent =>
    \A i \in 1..Len(req.body.actions) :
      LET a == req.body.actions[i]
          drawn == [w |-> script.final[i].width, h |-> script.final[i].height]
      IN /\ a.viewport = drawn
         /\ _scale_rect(a.rect, PageRect, a.viewport) = _scale_rect(a.rect, PageRect, drawn)

\* A signature action on a page of the document whose image payload does not
\* decode to an image.
UndecodableSignature(a) ==
  /\ Get(a, "type") = "signature"
  /\ "page" \in DOMAIN a /\ a.page \in 0..(PageCountBefore - 1)
  /\ a.geometry = "ok"
  /\ a.payload # "png"

\* An action of a supported kind that the loop applies.
Applicable(a) ==
  /\ Get(a, "type") \in SupportedKinds \ {"signature"}
  /\ "page" \in DOMAIN a /\ a.page \in 0..(PageCountBefore - 1)
  /\ a.geometry = "ok"
  /\ a.writer = "ok"

\* C17: a signature action whose payload cannot be decoded is skipped without
\* failing the request: the rest of the batch is applied and one new version
\* is appended.
C17_UndecodableSignatureSkipped ==
  (/\ AnnotateBatchOnDoc
   /\ \A i \in 1..Len(req.body.actions) :
        Applicable(req.body.actions[i]) \/ UndecodableSignature(req.body.actions[i])
   /\ \E i \in 1..Len(req.body.actions) : UndecodableSignature(req.body.actions[i]))
  => /\ RespOk(resp)
     /\ Len(DOCS[req.doc_id].versions) = Len(pre.DOCS[req.doc_id].versions) + 1

\* The pending object at JavaScript index k is on the current page and the
\* position pt is on one of its handles or its padded body.
Matches(k, pt) ==
  /\ state.stack[k + 1].page = currentPage
  /\ HitTestOne(state.stack[k + 1], k, currentPage, pt[1], pt[2]).kind = "hit"

\* C18: when hit-testing returns an object it is on the current page and
\* matches the position, and no object later in the pending list does; so of
\* two objects that both match, the one created later is returned.
C18_HitTestReturnsTopmost ==
  \A pt \in DupPoints :
    LET h == hitTestAt(pt[1], pt[2]) IN
    /\ h.kind = "hit" =>
         /\ h.page = currentPage
         /\ Matches(h.index, pt)
         /\ \A k \in (h.index + 1)..(Len(state.stack) - 1) : ~Matches(k, pt)
    /\ h.kind = "null" => \A k \in 0..(Len(state.stack) - 1) : ~Matches(k, pt)

\* Two objects on the current page match the same position and the later one
\* is returned.
C18_Witness ==
  \E pt \in DupPoints :
    \E i, j \in 0..(Len(state.stack) - 1) :
      /\ i < j
      /\ Matches(i, pt) /\ Matches(j, pt)
      /\ hitTestAt(pt[1], pt[2]).kind = "hit"
      /\ hitTestAt(pt[1], pt[2]).index = j

\* b is a with every coordinate of its rect and its points moved by d.
MovedBy(a, b, d) ==
  /\ DOMAIN b = DOMAIN a
  /\ \A k \in DOMAIN a \ {"rect", "points"} : b[k] = a[k]
  /\ "rect" \in DOMAIN a => \A c \in 1..4 : b.rect[c] = a.rect[c] + d
  /\ "points" \in DOMAIN a =>
       /\ Len(b.points) = Len(a.points)
       /\ \A i \in 1..Len(a.points) : b.points[i] = <<a.points[i][1] + d, a.points[i][2] + d>>

\* C19: after a rect-like or line object is duplicated and the original is
\* selected and deleted, the pending list holds exactly one object: the
\* original moved by (+8, +8) pixels, its other attributes unchanged.
C19_DuplicateThenDeleteOriginal ==
  script.phase = "deleted" =>
    /\ Len(state.stack) = 1
    /\ MovedBy(script.final[1], state.stack[1], Px(8))

C19_Witness ==
  /\ script.phase = "deleted"
  /\ Len(state.stack) = 1
  /\ state.stack[1].type = "line"

\* The ink tool is held down on a stroke of exactly one point: a press with
\* no pointer-move after it.
InkPressed ==
  state.tool = "ink" /\ state.drawing /\ ~state.draggingSel /\ Len(state.stroke) = 1

\* C20: with the ink tool, a pointer-down followed by a pointer-up with no
\* pointer-move in between commits nothing: neither the press nor the release
\* changes the pending list, the snapshots or the cursor.
C20_InkClickCommitsNothing ==
  [][(\/ \E pt \in PointInputs : mousedown(pt)
      \/ InkPressed /\ \E pt \in PointInputs, r \in PromptResults : mouseup(pt, r))
     => /\ state'.stack = state.stack
        /\ state'.history = state.history
        /\ state'.historyIdx = state.historyIdx]_vars

\* The release of an ink press was the last event: the one-point stroke is
\* gone and the pending list is the one before it.
C20_Witness ==
  /\ script.phase = "mouseup"
  /\ state.tool = "ink" /\ script.k = 1
  /\ ~state.drawing /\ state.stroke = <<>>
  /\ state.stack = script.final
  /\ state.historyIdx = script.base

\* C21: after a save or rollback that the server answered with success the
\* pending list is empty and the history is the one snapshot of the empty
\* list with the cursor at 0; after one answered with a failure the pending
\* list, the history and the cursor are as the click found them.
C21_SaveOrRollbackSyncsPending ==
  script.phase \in {"saved", "rolledback"} =>
    IF RespOk(resp)
    THEN /\ state.stack = <<>>
         /\ state.history = <<JSONstringify(<<>>)>>
         /\ state.historyIdx = 0
    ELSE /\ state.stack = script.final.stack
         /\ state.history = script.final.history
         /\ state.historyIdx = script.final.historyIdx

\* A rollback succeeded while objects were pending.
C21_Witness ==
  /\ script.phase = "rolledback"
  /\ RespOk(resp)
  /\ script.final.stack # <<>>
  /\ state.stack = <<>>

\* s is the beginning of t.
IsPrefix(s, t) == Len(s) <= Len(t) /\ SubSeq(t, 1, Len(s)) = s

\* C22: annotate requests against one document do not interleave: every
\* entry of the ledger after the first is the entry before it with one batch
\* applied and the document serialised once more, so the current version
\* holds the edits of every save in the ledger.
C22_LedgerEntriesBuildOnPrevious ==
  \A d \in DOMAIN DOCS :
    LET vers == DOCS[d].versions IN
    \A i \in 1..(Len(vers) - 1) :
      /\ IsPrefix(storage[vers[i]].annots, storage[vers[i + 1]].annots)
      /\ storage[vers[i + 1]].gen = storage[vers[i]].gen + 1

\* A creation drag with the line or arrow tool is in progress.
LineDrawn == state.drawing /\ ~state.draggingSel /\ state.tool \in LineKinds

\* C23: with the line or arrow tool, the release of a creation drag at the
\* point where it started appends a line or arrow with two distinct
\* endpoints to the pending list.
C23_CoincidentLineCommitted ==
  [][(LineDrawn /\ \E pt \in DupPoints : pt = state.start /\ mouseup(pt, None))
     => /\ Len(state'.stack) = Len(state.stack) + 1
        /\ Last(state'.stack).type = state.tool
        /\ Last(state'.stack).points[1] # Last(state'.stack).points[2]]_vars

\* C24: for integer viewport dimensions of at least 1 every pixel
\* coordinate is mapped to coordinate x page dimension / viewport dimension,
\* each axis by its own dimensions, so with the viewport doubled and the
\* pixel rect fixed the mapped rect is half as wide and half as high.
C24_ScaleIsLinearPerAxis ==
  "doubled" \in DOMAIN resp =>
    LET pw == req.page_rect[3] - req.page_rect[1]
        ph == req.page_rect[4] - req.page_rect[2]
    IN /\ \A c \in {1, 3} : resp.rect[c] * Sub * req.viewport.w = req.rect[c] * pw
       /\ \A c \in {2, 4} : resp.rect[c] * Sub * req.viewport.h = req.rect[c] * ph
       /\ 2 * RectWidth(resp.doubled) = RectWidth(resp.rect)
       /\ 2 * RectHeight(resp.doubled) = RectHeight(resp.rect)

\* A rect of positive width and height was mapped for a viewport that is not
\* square.
C24_Witness ==
  /\ "doubled" \in DOMAIN resp
  /\ req.viewport.w # req.viewport.h
  /\ RectWidth(resp.rect) > 0 /\ RectHeight(resp.rect) > 0
  /\ RectWidth(resp.doubled) > 0

\* The canvas holds the point.
OnCanvas(x, y) == 0 <= x /\ x <= Px(overlay.width) /\ 0 <= y /\ y <= Px(overlay.height)

\* applyDragToSelection recorded the start points and assigned the line's points.
DraggedALine == state.draggingSel /\ "startPoints" \in DOMAIN state.sel

\* C25: after every pointer-move of a selection drag every coordinate of the
\* dragged object lies on the canvas, also after enforceMinRect widened a
\* rect that was pushed against an edge.
C25_DraggedObjectStaysOnCanvas ==
  /\ DraggedARect =>
       LET r == state.stack[state.sel.index + 1].rect
       IN OnCanvas(r[1], r[2]) /\ OnCanvas(r[3], r[4])
  /\ DraggedALine =>
       LET p == state.stack[state.sel.index + 1].points
       IN OnCanvas(p[1][1], p[1][2]) /\ OnCanvas(p[2][1], p[2][2])

\* C26: while an object is dragged by its move handle its size is the size
\* at drag start: a rect's width and height, a line's vector from its first
\* to its second point.
C26_MoveKeepsSize ==
  (state.draggingSel /\ state.sel # NoSel /\ state.sel.handle = "move") =>
    /\ DraggedARect =>
         LET r == state.stack[state.sel.index + 1].rect
             s == state.sel.startRect
         IN r[3] - r[1] = s[3] - s[1] /\ r[4] - r[2] = s[4] - s[2]
    /\ DraggedALine =>
         LET p == state.stack[state.sel.index + 1].points
             s == state.sel.startPoints
         IN /\ p[2][1] - p[1][1] = s[2][1] - s[1][1]
            /\ p[2][2] - p[1][2] = s[2][2] - s[1][2]

\* The geometry of action a: its rect, or its points.
Geometry(a) == IF "rect" \in DOMAIN a THEN a.rect ELSE a.points

\* The geometry the selected object had when the button went down: the one
\* recorded at the first pointer-move of the drag, or the object's own when
\* no pointer-move has come yet.
GeometryAtPointerDown ==
  IF "startRect" \in DOMAIN state.sel THEN state.sel.startRect
  ELSE IF "startPoints" \in DOMAIN state.sel THEN state.sel.startPoints
  ELSE Geometry(state.stack[state.sel.index + 1])

\* A selection drag is under way on an object made by a handler.
Dragging == state.draggingSel /\ state.sel # NoSel /\ "startMouse" \in DOMAIN state.sel

\* C27: a pointer-move of a selection drag that brings the pointer to where
\* the button went down leaves the dragged object with the geometry it had
\* when the button went down.
C27_DragBackRestoresGeometry ==
  [][(Dragging /\ mousemove(state.sel.startMouse))
     => Geometry(state'.stack[state.sel.index + 1]) = GeometryAtPointerDown]_vars

\* A rect-like action's rect was computed for its writer.
RectWritten == "written" \in DOMAIN resp /\ req.a.type \in RectKinds

\* C28: for every rect-like action and every input rect, near-zero, inverted
\* or wholly outside the page, the rect handed to the writer lies inside the
\* page and has strictly positive width and height, on pages at least 2
\* points wide and high.
C28_WrittenRectInsidePageAndPositive ==
  RectWritten =>
    /\ _clip_rect(resp.written, req.a.page_rect) = resp.written
    /\ RectWidth(resp.written) > 0
    /\ RectHeight(resp.written) > 0

\* The rect of an inverted input that lies wholly outside the page was
\* computed.
C28_Witness ==
  /\ RectWritten
  /\ req.a.rect[1] > req.a.rect[3]
  /\ req.a.rect[3] > Px(req.a.viewport.w)
  /\ RectWidth(resp.written) > 0

\* C29: the rect a textbox is written with is at least max(16, 1.6 x
\* font size) points high, wherever on the page the requested rect lies.
C29_TextboxAtLeastOneLineHigh ==
  ("written" \in DOMAIN resp /\ req.a.type = "textbox"
     /\ _clip_rect(_scale_rect(req.a.rect, req.a.page_rect, req.a.viewport), req.a.page_rect)
          = _scale_rect(req.a.rect, req.a.page_rect, req.a.viewport))
    => RectHeight(resp.written) >= min_text_height(req.a.font_size)

\* C30: the two end points a line or arrow is written with are distinct,
\* also when the mapped points coincide, wherever the coincident point is.
C30_LineEndsDistinct ==
  ("written" \in DOMAIN resp /\ req.a.type \in LineKinds)
    => resp.written[1] # resp.written[2]

\* The response of a save has arrived with success.
SaveSucceeded == script.phase = "arrived" /\ RespOk(resp)

\* C31: every object that a successful save removes from the pending list
\* was in the batch the click sent: nothing created or modified between the
\* click and the arrival of the response is discarded.
C31_SaveRemovesOnlySentObjects ==
  SaveSucceeded =>
    \A i \in 1..Len(script.final.found) :
      \/ \E j \in 1..Len(script.final.sent) : script.final.found[i] = script.final.sent[j]
      \/ \E j \in 1..Len(state.stack) : script.final.found[i] = state.stack[j]

\* The mouse button is up: no selection drag and no creation drag is under way.
NoDragInProgress == script.phase = "edit"

\* C32: with the mouse button up and a non-empty history the pending list
\* is the snapshot at the history cursor, whatever pointer and keyboard
\* events came before, keys pressed during a drag included.
C32_PendingIsSnapshotAtCursor ==
  (NoDragInProgress /\ state.history # <<>>)
    => JSONstringify(state.stack) = state.history[state.historyIdx + 1]

\* C33: a Delete removes an object of the page that is shown, never one of
\* a page that was left by navigating to another.
C33_DeleteRemovesFromShownPage ==
  [][keyDelete => state.stack[state.sel.index + 1].page = currentPage]_vars

====
